---- MODULE Spec2Model ----
(***************************************************************************)
(* A model of qiskit_ibm/ibm_backend.py: one backend object (IBMBackend,   *)
(* IBMSimulator or IBMRetiredBackend), its caller, and the calls the       *)
(* caller makes on it.  Every call is one atomic action that runs the      *)
(* whole method; the values the remote API client hands back are chosen    *)
(* nondeterministically.  The caller's frame (call, circuits, qobjs,       *)
(* run_config_dict, log, ret) records what the last call was given, what   *)
(* it did, in order, and how it ended; it is dropped when the caller goes  *)
(* on (Return).                                                            *)
(*                                                                         *)
(* Python values are modelled with one TLA+ type per slot:                 *)
(*   Optional[int]   <<>> for None, <<n>> for the integer n                *)
(*   option values   strings, "None" for None                             *)
(*   dict            a sequence of <<key, value>> pairs with distinct keys *)
(*                   in insertion order                                    *)
(*   str(ApiError)   a sequence of tokens                                  *)
(***************************************************************************)
EXTENDS Integers, Sequences, FiniteSets, TLC

\* ------------------------------------------------------------------------
\* Bounds of the model
\* ------------------------------------------------------------------------
MaxN == 3
MaxExp == 2
MaxPerJob == 2
MaxMsg == 3
MaxJobs == 1
MaxServerJobs == 2

\* ------------------------------------------------------------------------
\* Python helpers
\* ------------------------------------------------------------------------
NoneInt == <<>>
Some(n) == <<n>>
IsNone(o) == o = <<>>
Val(o) == o[1]

\* bool(o) of an Optional[int]: None and 0 are falsy.
Truthy(o) == ~IsNone(o) /\ Val(o) # 0

Min(a, b) == IF b < a THEN b ELSE a

DictHas(d, k) == \E i \in 1..Len(d) : d[i][1] = k
DictGet(d, k) == d[CHOOSE i \in 1..Len(d) : d[i][1] = k][2]
DictSet(d, k, v) ==
    IF DictHas(d, k)
    THEN [i \in 1..Len(d) |-> IF d[i][1] = k THEN <<k, v>> ELSE d[i]]
    ELSE Append(d, <<k, v>>)
DictKeys(d) == {d[i][1] : i \in 1..Len(d)}

\* All sequences over S of length lo..hi.
SeqsOf(S, lo, hi) == UNION {[1..n -> S] : n \in lo..hi}

\* s[a:b] of a Python list, 0-based, for 0 <= a.
Slice(s, a, b) == SubSeq(s, a + 1, Min(b, Len(s)))

\* list(range(start, stop, step)) for step # 0.
RECURSIVE Range(_, _, _)
Range(start, stop, step) ==
    IF (step > 0 /\ start < stop) \/ (step < 0 /\ start > stop)
    THEN <<start>> \o Range(start + step, stop, step)
    ELSE <<>>

\* `pat in msg` for strings given as token sequences.
Contains(msg, pat) ==
    \E i \in 1..(Len(msg) - Len(pat) + 1) : SubSeq(msg, i, i + Len(pat) - 1) = pat

Event(e, a) == [ev |-> e, arg |-> a]
Count(lg, e) == Cardinality({i \in 1..Len(lg) : lg[i].ev = e})
CountEvent(lg, e, a) == Cardinality({i \in 1..Len(lg) : lg[i] = Event(e, a)})
First(lg, e) == CHOOSE i \in 1..Len(lg) : lg[i].ev = e /\ \A j \in 1..(i - 1) : lg[j].ev # e

\* ------------------------------------------------------------------------
\* Circuits and schedules
\* ------------------------------------------------------------------------
Instr(name, q) == [name |-> name, qargs |-> q, duration |-> "None"]
Delay(duration, q) == [name |-> "delay", qargs |-> q, duration |-> duration]
QuantumCircuit(data) == [type |-> "QuantumCircuit", data |-> data]
Schedule == [type |-> "Schedule", data |-> <<>>]

CircPlain == QuantumCircuit(<<Instr("x", 0)>>)
CircId == QuantumCircuit(<<Instr("id", 0), Instr("x", 1), Instr("id", 1)>>)
CircuitPool == {CircPlain, CircId, Schedule}

\* ------------------------------------------------------------------------
\* Backend configurations, as the provider hands them to the constructor
\* ------------------------------------------------------------------------
Absent == "absent"

\* A device: IBMBackend on a configuration with simulator = False.
Device(m, e, gates, instructions) ==
    [backend_name |-> "ibmq_device", simulator |-> FALSE,
     max_experiments |-> m, measure_esp_enabled |-> e,
     basis_gates |-> gates, supported_instructions |-> instructions,
     simulation_method |-> Absent]

MaxExperiments == {NoneInt} \cup {Some(n) : n \in 1..MaxExp}

\* Devices that differ in max_experiments and in their support of 'id' and
\* 'delay', and devices that differ in measure_esp_enabled.
DeviceConfigurations ==
    {Device(m, Absent, gs[1], gs[2]) :
        m \in MaxExperiments,
        gs \in {<<{"id", "sx", "x"}, {"delay"}>>,
                <<{"sx", "x"}, {"delay"}>>,
                <<{"id", "sx", "x"}, {}>>}}
    \cup {Device(Some(1), e, {"id", "sx", "x"}, {"delay"}) :
            e \in {Absent, "False", "True"}}

\* A simulator: IBMSimulator on a configuration with simulator = True.
SimulatorConfigurations ==
    {[backend_name |-> "ibmq_qasm_simulator", simulator |-> TRUE,
      max_experiments |-> m, measure_esp_enabled |-> Absent,
      basis_gates |-> {"id", "sx", "x"}, supported_instructions |-> {"delay"},
      simulation_method |-> sm] :
        m \in MaxExperiments,
        sm \in {Absent, "statevector"}}

\* IBMRetiredBackend.from_name builds this configuration.
RetiredConfiguration ==
    [backend_name |-> "ibmq_retired", simulator |-> FALSE,
     max_experiments |-> NoneInt, measure_esp_enabled |-> Absent,
     basis_gates |-> {}, supported_instructions |-> {},
     simulation_method |-> Absent]

\* IBMBackend._default_options
IBMBackend_default_options ==
    << <<"shots", "4000">>, <<"memory", "False">>,
       <<"qubit_lo_freq", "None">>, <<"meas_lo_freq", "None">>,
       <<"schedule_los", "None">>,
       <<"meas_level", "2">>,
       <<"meas_return", "avg">>,
       <<"memory_slots", "None">>, <<"memory_slot_size", "100">>,
       <<"rep_time", "None">>, <<"rep_delay", "None">>,
       <<"init_qubits", "True">>, <<"use_measure_esp", "None">>,
       <<"live_data_enabled", "None">> >>

\* IBMSimulator._default_options
IBMSimulator_default_options ==
    DictSet(DictSet(IBMBackend_default_options, "noise_model", "None"),
            "seed_simulator", "None")

\* IBMRetiredBackend._default_options
IBMRetiredBackend_default_options == <<>>

_default_options(class) ==
    CASE class = "IBMBackend" -> IBMBackend_default_options
      [] class = "IBMSimulator" -> IBMSimulator_default_options
      [] class = "IBMRetiredBackend" -> IBMRetiredBackend_default_options

\* ------------------------------------------------------------------------
\* State
\* ------------------------------------------------------------------------
VARIABLES
    cls,                 \* the class of the backend object
    _configuration,      \* self._configuration
    options,             \* self.options
    id_warning_issued,   \* self.id_warning_issued
    _properties,         \* self._properties: "None" or the cached properties
    _defaults,           \* self._defaults: "None" or the cached defaults
    pc,                  \* the caller: "idle", or "returned" from a call
    call,                \* the call: method, arguments, API responses
    circuits,            \* the caller's circuit objects, as the call left them
    qobjs,               \* the payloads assemble() built during the call
    run_config_dict,     \* the run configuration the call consolidated
    log,                 \* what the call did, in order
    ret                  \* how the call ended

self == <<cls, _configuration, options, id_warning_issued, _properties, _defaults>>
frame == <<call, circuits, qobjs, run_config_dict, log, ret>>
vars == <<self, pc, frame>>

NoCall == [op |-> "none"]
\* BackendStatus(backend_name=..., operational=..., pending_jobs=...,
\*               status_msg=...)
BackendStatus(operational, pending_jobs, status_msg) ==
    [operational |-> operational, pending_jobs |-> pending_jobs,
     status_msg |-> status_msg]
NoStatus == BackendStatus("None", NoneInt, "")

NoRet == [kind |-> "none", exc |-> "", msg |-> "", job_id |-> "",
          circuits_list |-> <<>>, value |-> "None",
          status |-> NoStatus, maximum_jobs |-> NoneInt, active_jobs |-> NoneInt,
          count |-> NoneInt, list |-> <<>>, jobs |-> <<>>]

Raise(exc, msg) == [NoRet EXCEPT !.kind = "raise", !.exc = exc, !.msg = msg]
Returns(value) == [NoRet EXCEPT !.kind = "value", !.value = value]

\* ------------------------------------------------------------------------
\* IBMBackend.properties
\* ------------------------------------------------------------------------
\* What the API client's backend_properties can hand back: it raises, it has
\* no data, or it has a calibration snapshot.
PropertiesResponses == {"ApiError", "None", "p1", "p2"}

\* A response with missing or mistyped fields, and the error the decoding of
\* it ends with.
MalformedResponses == {"malformed: TypeError", "malformed: KeyError"}
decode_error(response) ==
    IF response = "malformed: TypeError" THEN "TypeError" ELSE "KeyError"

\* (Variant: the result of a query with a datetime is cached, too.)
stored_always(cache, datetime, backend_properties) == backend_properties
\* if datetime: return backend_properties    # Don't cache result.
\* self._properties = backend_properties
stored(cache, datetime, backend_properties) ==
    IF datetime # "None" THEN cache ELSE backend_properties

\* properties(refresh, datetime) on the cache `cache`; `response` is what the
\* server answers if it is asked.
properties(cache, refresh, datetime, response) ==
    IF datetime # "None" \/ refresh \/ cache = "None"
    THEN LET asked == <<Event("net", "backend_properties")>>
         IN  IF response = "ApiError"
             THEN [value |-> "None", exc |-> "ApiError", _properties |-> cache,
                   log |-> asked]
             ELSE IF response = "None"
             THEN [value |-> "None", exc |-> "", _properties |-> cache, log |-> asked]
             \* decode_backend_properties, BackendProperties.from_dict
             ELSE IF response \in MalformedResponses
             THEN [value |-> "None", exc |-> decode_error(response),
                   _properties |-> cache, log |-> asked]
             ELSE [value |-> response, exc |-> "",
                   _properties |-> stored(cache, datetime, response), log |-> asked]
    ELSE [value |-> cache, exc |-> "", _properties |-> cache, log |-> <<>>]

\* ------------------------------------------------------------------------
\* IBMBackend.status, defaults, job_limit, remaining_jobs_count, active_jobs,
\* reservations
\* ------------------------------------------------------------------------
\* What an accessor gives: how it ends, the cache it leaves, what it did.
Gives(r, cache, lg) == [ret |-> r, cache |-> cache, log |-> lg]

\* What the API client's backend_status can hand back.
StatusResponse(kind, status) == [kind |-> kind, status |-> status]
StatusResponses ==
    {StatusResponse(k, NoStatus) : k \in {"ApiError"} \cup MalformedResponses}
    \cup {StatusResponse("ok", BackendStatus("True", Some(n), "active")) :
             n \in 0..MaxJobs}
    \cup {StatusResponse("ok", BackendStatus("False", Some(0), "maintenance"))}

\* try: ... except TypeError as ex: raise IBMBackendApiProtocolError(...)
protocol_error(error) ==
    IF error = "TypeError" THEN "IBMBackendApiProtocolError" ELSE error

\* status()
status(response) ==
    IF response.kind = "ApiError"
    THEN Gives(Raise("ApiError", ""), "None", <<Event("net", "backend_status")>>)
    ELSE IF response.kind \in MalformedResponses
    THEN Gives(Raise(protocol_error(decode_error(response.kind)), ""), "None",
               <<Event("net", "backend_status")>>)
    ELSE Gives([Returns("BackendStatus") EXCEPT !.status = response.status], "None",
               <<Event("net", "backend_status")>>)

\* What the API client's backend_pulse_defaults can hand back.
DefaultsResponses == {"ApiError", "None", "d1", "d2"}

\* defaults(refresh) on the cache `cache`
defaults(cache, refresh, response) ==
    IF refresh \/ cache = "None"
    THEN IF response = "ApiError"
         THEN Gives(Raise("ApiError", ""), cache,
                    <<Event("net", "backend_pulse_defaults")>>)
         ELSE IF response = "None"
         THEN Gives(Returns("None"), "None",
                    <<Event("net", "backend_pulse_defaults")>>)
         \* decode_pulse_defaults, PulseDefaults.from_dict
         ELSE IF response \in MalformedResponses
         THEN Gives(Raise(decode_error(response), ""), cache,
                    <<Event("net", "backend_pulse_defaults")>>)
         ELSE Gives(Returns(response), response,
                    <<Event("net", "backend_pulse_defaults")>>)
    ELSE Gives(Returns(cache), cache, <<>>)

\* What the API client's backend_job_limit can hand back.
JobLimitResponse(kind, maximum_jobs, active_jobs) ==
    [kind |-> kind, maximum_jobs |-> maximum_jobs, active_jobs |-> active_jobs]
JobLimitResponses ==
    {JobLimitResponse(k, 0, 0) : k \in {"ApiError"} \cup MalformedResponses}
    \cup {JobLimitResponse("ok", m, a) : m \in (-1)..MaxJobs, a \in 0..MaxJobs}

\* BackendJobLimit(maximum_jobs=..., active_jobs=...)
BackendJobLimit(maximum_jobs, active_jobs) ==
    [Returns("BackendJobLimit") EXCEPT !.maximum_jobs = maximum_jobs,
                                        !.active_jobs = Some(active_jobs)]

\* (Variant: a server maximum of 0 is read as no limit, too.)
no_limit_below_one(maximum_jobs) == maximum_jobs < 1
\* job_limit.maximum_jobs == -1
no_limit(maximum_jobs) == maximum_jobs = -1

\* job_limit()
job_limit(response) ==
    IF response.kind = "ApiError"
    THEN Gives(Raise("ApiError", ""), "None", <<Event("net", "backend_job_limit")>>)
    ELSE IF response.kind \in MalformedResponses
    THEN Gives(Raise(protocol_error(decode_error(response.kind)), ""), "None",
               <<Event("net", "backend_job_limit")>>)
    ELSE Gives(BackendJobLimit(IF no_limit(response.maximum_jobs) THEN NoneInt
                               ELSE Some(response.maximum_jobs),
                               response.active_jobs),
               "None", <<Event("net", "backend_job_limit")>>)

\* remaining_jobs_count(), with what its call of job_limit() gave
remaining_of(limit) ==
    IF limit.ret.kind = "raise" THEN limit
    ELSE IF IsNone(limit.ret.maximum_jobs)
    THEN [limit EXCEPT !.ret = Returns("None")]
    ELSE [limit EXCEPT
             !.ret = [Returns("int") EXCEPT
                         !.count = Some(Val(limit.ret.maximum_jobs)
                                        - Val(limit.ret.active_jobs))]]
\* (Variant: job_limit() is called once for each of the two attributes.)
remaining_jobs_count_asking_twice(response) ==
    [remaining_of(job_limit(response)) EXCEPT !.log = @ \o @]
remaining_jobs_count(response) == remaining_of(job_limit(response))

\* What the API client's backend_reservations can hand back: an error, or a
\* list.
ListResponses ==
    {"ApiError"} \cup MalformedResponses \cup {"none", "one"}
list_of(response) == IF response = "one" THEN <<"item">> ELSE <<>>

\* The jobs the server holds for this provider, each on some backend and in
\* some status, and what the job query can hand back.
Job(backend_name, job_status) == [backend_name |-> backend_name, status |-> job_status]
JobPool(backend_name) ==
    {Job(b, st) : b \in {backend_name, "ibmq_other"}, st \in {"QUEUED", "DONE"}}
JobsResponse(kind, server_jobs) == [kind |-> kind, jobs |-> server_jobs]
JobsResponses(backend_name) ==
    {JobsResponse(k, <<>>) : k \in {"ApiError"} \cup MalformedResponses}
    \cup {JobsResponse("ok", js) : js \in SeqsOf(JobPool(backend_name), 0, MaxServerJobs)}

\* The job statuses that are not final.
active_job_states == {"INITIALIZING", "VALIDATING", "QUEUED", "RUNNING"}

\* A job query: the filters it carries; a backend_name of "None" is no filter.
JobQuery(backend_name, job_status, limit) ==
    [backend_name |-> backend_name, status |-> job_status, limit |-> limit]

\* provider.backend.jobs(...): the first `limit` jobs that pass the filters.
jobs(query, server_jobs) ==
    LET Passes(j) == /\ j.status \in query.status
                     /\ query.backend_name # "None"
                           => j.backend_name = query.backend_name
    IN  Slice(SelectSeq(server_jobs, Passes), 0, query.limit)

\* The query active_jobs(limit) issues.
active_jobs_query(limit) == JobQuery("None", active_job_states, limit)

\* active_jobs(limit)
active_jobs(limit, response) ==
    IF response.kind = "ok"
    THEN Gives([Returns("list") EXCEPT
                   !.jobs = jobs(active_jobs_query(limit), response.jobs)],
               "None", <<Event("net", "jobs")>>)
    ELSE Gives(Raise(IF response.kind = "ApiError" THEN response.kind
                     ELSE decode_error(response.kind), ""),
               "None", <<Event("net", "jobs")>>)

\* reservations(start_datetime, end_datetime)
reservations(response) ==
    IF response \in {"none", "one"}
    THEN Gives([Returns("list") EXCEPT !.list = list_of(response)], "None",
               <<Event("net", "backend_reservations")>>)
    \* convert_reservation_data
    ELSE Gives(Raise(IF response = "ApiError" THEN response
                     ELSE decode_error(response), ""),
               "None", <<Event("net", "backend_reservations")>>)

\* IBMRetiredBackend: self._status and the overridden accessors
IBMRetiredBackend__status ==
    BackendStatus("False", Some(0), "This backend is no longer available.")
\* (Variant: the status is asked of the server, as in IBMBackend.)
IBMRetiredBackend_status_inherited ==
    status(StatusResponse("ok", BackendStatus("True", Some(0), "active")))
IBMRetiredBackend_status ==
    Gives([Returns("BackendStatus") EXCEPT !.status = IBMRetiredBackend__status],
          "None", <<>>)
IBMRetiredBackend_None(cache) == Gives(Returns("None"), cache, <<>>)
IBMRetiredBackend_reservations ==
    Gives([Returns("list") EXCEPT !.list = <<>>], "None", <<>>)

\* ------------------------------------------------------------------------
\* IBMBackend._deprecate_id_instruction
\* ------------------------------------------------------------------------
circuit_has_id(circs) ==
    \E c \in 1..Len(circs) :
        /\ circs[c].type = "QuantumCircuit"
        /\ \E i \in 1..Len(circs[c].data) : circs[c].data[i].name = "id"

\* The replacement loop, from instruction idx (1-based) of circuit c on.
\* st = [circuits, id_warning_issued, _properties, log, exc].
RECURSIVE ReplaceIdLoop(_, _, _, _)

\* One 'id' instruction: got is what self.properties() gave.
ReplaceId(st, c, idx, response, got) ==
    IF got.exc # ""
    THEN [st EXCEPT !._properties = got._properties, !.log = @ \o got.log,
                    !.exc = got.exc]
    ELSE IF got.value = "None"
    \* self.properties().gate_length on None
    THEN [st EXCEPT !._properties = got._properties, !.log = @ \o got.log,
                    !.exc = "AttributeError"]
    ELSE ReplaceIdLoop(
             [st EXCEPT !._properties = got._properties,
                        !.circuits[c].data[idx] = Delay(got.value, @.qargs),
                        !.log = @ \o got.log \o <<Event("replace", "id")>>],
             c, idx + 1, response)

ReplaceIdLoop(st, c, idx, response) ==
    IF c > Len(st.circuits) THEN st
    ELSE IF st.circuits[c].type = "Schedule" \/ idx > Len(st.circuits[c].data)
    THEN ReplaceIdLoop(st, c + 1, 1, response)
    ELSE IF st.circuits[c].data[idx].name # "id"
    THEN ReplaceIdLoop(st, c, idx + 1, response)
    ELSE ReplaceId(st, c, idx, response,
                   properties(st._properties, FALSE, "None", response))

\* (Variant: the warning is given whether or not it was given before.)
warning_due_always(issued) == TRUE
\* if not self.id_warning_issued
warning_due(issued) == ~issued

\* The circuits and the backend as a call found them.
Unchanged(circs) ==
    [circuits |-> circs, id_warning_issued |-> id_warning_issued,
     _properties |-> _properties, log |-> <<>>, exc |-> ""]

\* _deprecate_id_instruction(circuits) on the list form of the input.
_deprecate_id_instruction(circs, response) ==
    LET id_support == "id" \in _configuration.basis_gates
        delay_support == "delay" \in _configuration.supported_instructions
    IN  IF ~delay_support THEN Unchanged(circs)
        ELSE IF ~circuit_has_id(circs) THEN Unchanged(circs)
        ELSE ReplaceIdLoop(
                 [Unchanged(circs) EXCEPT
                     !.id_warning_issued = TRUE,
                     !.log = IF warning_due(id_warning_issued)
                             THEN <<Event("warn", IF id_support /\ delay_support
                                                  THEN "id deprecated"
                                                  ELSE "id removed")>>
                             ELSE <<>>],
                 1, 1, response)

\* ------------------------------------------------------------------------
\* IBMBackend._get_run_config
\* ------------------------------------------------------------------------
\* (Variant: a value of None counts as given.)
is_not_None_always(val) == TRUE
\* val is not None
is_not_None(val) == val # "None"

\* The loop over kwargs.items(), from item i on; d is run_config_dict so far,
\* a copy of self.options.__dict__, which the loop leaves as it is.
RECURSIVE GetRunConfigLoop(_, _, _, _)
GetRunConfigLoop(kwargs, i, d, warnings) ==
    IF i > Len(kwargs)
    THEN [run_config_dict |-> d, log |-> warnings, options |-> options]
    ELSE LET key == kwargs[i][1]
             val == kwargs[i][2]
         IN  IF is_not_None(val)
             THEN GetRunConfigLoop(kwargs, i + 1, DictSet(d, key, val),
                      IF ~DictHas(options, key) /\ cls # "IBMSimulator"
                      THEN Append(warnings, Event("warn unrecognized", key))
                      ELSE warnings)
             ELSE GetRunConfigLoop(kwargs, i + 1, d, warnings)

\* (Variant: no warning is given.)
_get_run_config_silent(kwargs) ==
    [GetRunConfigLoop(kwargs, 1, options, <<>>) EXCEPT !.log = <<>>]
_get_run_config(kwargs) == GetRunConfigLoop(kwargs, 1, options, <<>>)

\* ------------------------------------------------------------------------
\* IBMBackend._submit_job
\* ------------------------------------------------------------------------
\* What the API client's job_submit can do: raise an ApiError whose str() is
\* msg, or return the dict info.
ApiError(msg) == [raises |-> TRUE, msg |-> msg, info |-> <<>>]
SubmitInfo(info) == [raises |-> FALSE, msg |-> <<>>, info |-> info]

ErrorCode3458 == <<"Error code: ", "3458">>

\* IBMCircuitJob(backend, api_client, qobj=qobj, **submit_info): the job's
\* constructor takes the identifier as job_id and refuses (TypeError) a
\* response that gives none.
IBMCircuitJob_TypeError(submit_info) ==
    \/ ~DictHas(submit_info, "job_id")
    \/ DictGet(submit_info, "job_id") = ""

IBMCircuitJob(submit_info) ==
    [NoRet EXCEPT !.kind = "IBMCircuitJob", !.job_id = DictGet(submit_info, "job_id")]

\* `'Error code: 3458' in str(ex)`
\* (Variant: the code is looked for at the start of the message only.)
is_job_limit_error_from_start(msg) ==
    Len(msg) >= Len(ErrorCode3458) /\ SubSeq(msg, 1, Len(ErrorCode3458)) = ErrorCode3458
is_job_limit_error(msg) == Contains(msg, ErrorCode3458)

\* "Submission success": the job is constructed from the response, and
\* 'ibm.job.start' is published for it.
\* (Variants: a job is made of whatever the response holds; the event is
\* published before the job is constructed.)
job_from_any(submit_info) ==
    LET job == [NoRet EXCEPT !.kind = "IBMCircuitJob",
                             !.job_id = IF DictHas(submit_info, "job_id")
                                        THEN DictGet(submit_info, "job_id") ELSE ""]
    IN  [log |-> <<Event("IBMCircuitJob", job.job_id),
                   Event("publish", "ibm.job.start")>>,
         ret |-> job]
job_published_first(submit_info) ==
    IF IBMCircuitJob_TypeError(submit_info)
    THEN [log |-> <<Event("publish", "ibm.job.start")>>,
          ret |-> Raise("IBMBackendApiProtocolError",
                        "Unexpected return value received from the server")]
    ELSE LET job == IBMCircuitJob(submit_info)
         IN  [log |-> <<Event("publish", "ibm.job.start"),
                        Event("IBMCircuitJob", job.job_id)>>,
              ret |-> job]
job_from(submit_info) ==
    IF IBMCircuitJob_TypeError(submit_info)
    THEN [log |-> <<>>,
          ret |-> Raise("IBMBackendApiProtocolError",
                        "Unexpected return value received from the server")]
    ELSE LET job == IBMCircuitJob(submit_info)
         IN  [log |-> <<Event("IBMCircuitJob", job.job_id),
                        Event("publish", "ibm.job.start")>>,
              ret |-> job]

\* (Variant: the 'error' field of the response is not looked at.)
_submit_job_error_field_ignored(qobj, response) ==
    LET submitted == <<Event("net", "job_submit")>>
    IN  IF response.raises
        THEN [log |-> submitted,
              ret |-> Raise(IF is_job_limit_error(response.msg)
                            THEN "IBMBackendJobLimitError" ELSE "IBMBackendApiError",
                            "Error submitting job")]
        ELSE [job_from(response.info) EXCEPT !.log = submitted \o @]
_submit_job(qobj, response) ==
    LET submitted == <<Event("net", "job_submit")>>
    IN  IF response.raises
        THEN [log |-> submitted,
              ret |-> Raise(IF is_job_limit_error(response.msg)
                            THEN "IBMBackendJobLimitError" ELSE "IBMBackendApiError",
                            "Error submitting job")]
        ELSE IF DictHas(response.info, "error")
        THEN [log |-> submitted,
              ret |-> Raise("IBMBackendError", "Error submitting job")]
        ELSE [job_from(response.info) EXCEPT !.log = submitted \o @]

\* ------------------------------------------------------------------------
\* IBMBackend.run
\* ------------------------------------------------------------------------
\* validate_job_tags(job_tags, IBMBackendValueError): TRUE when it raises.
\* job_tags = [is_none, is_list, tags], each tag [is_str, tag].
validate_job_tags(job_tags) ==
    /\ ~job_tags.is_none
    /\ ~(job_tags.is_list /\ job_tags.tags = <<>>)
    /\ \/ ~job_tags.is_list
       \/ \E i \in 1..Len(job_tags.tags) : ~job_tags.tags[i].is_str

\* use_measure_esp as run() settles it from its argument, and whether run()
\* refuses it.
\* (Variant: ESP readout is never refused.)
measure_esp_unchecked(use_measure_esp) ==
    LET measure_esp_enabled == _configuration.measure_esp_enabled = "True"
        use == IF use_measure_esp = "None" THEN measure_esp_enabled
               ELSE use_measure_esp = "True"
    IN  [use |-> use, unsupported |-> FALSE]
measure_esp(use_measure_esp) ==
    LET measure_esp_enabled == _configuration.measure_esp_enabled = "True"
        use == IF use_measure_esp = "None" THEN measure_esp_enabled
               ELSE use_measure_esp = "True"
    IN  [use |-> use, unsupported |-> use /\ ~measure_esp_enabled]

\* The chunk size run() settles on for a list of circuits.
chunk_size(max_circuits_per_job) ==
    IF ~IsNone(_configuration.max_experiments)
    THEN LET backend_max == Val(_configuration.max_experiments)
         IN  IF IsNone(max_circuits_per_job) THEN Some(backend_max)
             ELSE Some(Min(backend_max, Val(max_circuits_per_job)))
    ELSE IF Truthy(max_circuits_per_job) THEN max_circuits_per_job
    ELSE NoneInt

\* [circuits[x:x + chunk_size] for x in range(0, len(circuits), chunk_size)]
circuits_list(circs, size) ==
    LET xs == Range(0, Len(circs), size)
    IN  [k \in 1..Len(xs) |-> Slice(circs, xs[k], xs[k] + size)]

\* Whether run() splits a list of n circuits, given the chunk size.
\* (Variant: a list of exactly chunk_size circuits is split too.)
splits_at_size(size, n) == Truthy(size) /\ n >= Val(size)
splits(size, n) == Truthy(size) /\ n > Val(size)

\* The result of a call that changes nothing of the backend.
Untouched(circs) ==
    [circuits |-> circs, _configuration |-> _configuration,
     id_warning_issued |-> id_warning_issued,
     _properties |-> _properties, _defaults |-> _defaults, options |-> options,
     qobjs |-> <<>>, run_config_dict |-> <<>>,
     log |-> <<>>, ret |-> NoRet]

\* The keyword arguments run() hands to _get_run_config; the named parameters
\* the arguments a do not carry are left at None by the caller.
run_kwargs(a, use_measure_esp) ==
    << <<"qobj_header", a.header>>, <<"shots", a.shots>>,
       <<"memory", "None">>, <<"qubit_lo_freq", "None">>,
       <<"meas_lo_freq", "None">>, <<"schedule_los", "None">>,
       <<"meas_level", "None">>, <<"meas_return", "None">>,
       <<"memory_slots", "None">>, <<"memory_slot_size", "None">>,
       <<"rep_time", "None">>, <<"rep_delay", "None">>,
       <<"init_qubits", "None">>,
       <<"use_measure_esp", IF use_measure_esp THEN "True" ELSE "False">>
    >> \o a.run_config

\* run_config_dict['parameter_binds'] and run_config_dict['method']
with_parameter_binds(d, parameter_binds) ==
    IF parameter_binds # "None" THEN DictSet(d, "parameter_binds", parameter_binds)
    ELSE d
with_method(d) ==
    IF _configuration.simulator /\ _configuration.simulation_method # Absent
          /\ ~DictHas(d, "method")
    THEN DictSet(d, "method", _configuration.simulation_method)
    ELSE d

Qobj(circs, config) == [experiments |-> circs, config |-> config]

\* (Variant: the submission renames the backend.)
run_submitted_renaming(ready, qobj, sub) ==
    [ready EXCEPT !.qobjs = <<qobj>>,
                  !.log = @ \o <<Event("assemble", "ok")>> \o sub.log,
                  !.ret = sub.ret,
                  !._configuration.backend_name = "renamed"]
\* The end of run(): assemble() has built qobj and _submit_job gave sub.
run_submitted(ready, qobj, sub) ==
    [ready EXCEPT !.qobjs = <<qobj>>,
                  !.log = @ \o <<Event("assemble", "ok")>> \o sub.log,
                  !.ret = sub.ret]

\* run() from the chunking on: ready holds the circuits and the run
\* configuration.
run_split_or_submit(a, env, ready) ==
    IF a.is_list /\ splits(chunk_size(a.max_circuits_per_job), Len(ready.circuits))
    THEN [ready EXCEPT
             !.log = @ \o <<Event("IBMCompositeJob", "")>>,
             !.ret = [NoRet EXCEPT
                         !.kind = "IBMCompositeJob",
                         !.circuits_list =
                             circuits_list(ready.circuits,
                                           Val(chunk_size(a.max_circuits_per_job)))]]
    ELSE IF env.assemble # "ok"
    THEN [ready EXCEPT !.log = @ \o <<Event("assemble", env.assemble)>>,
                       !.ret = Raise(env.assemble, "")]
    ELSE run_submitted(ready, Qobj(ready.circuits, ready.run_config_dict),
                       _submit_job(Qobj(ready.circuits, ready.run_config_dict),
                                   env.job_submit))

\* run() from _get_run_config on: got is what _get_run_config gave.
run_configured(a, env, after, got) ==
    run_split_or_submit(a, env,
        [after EXCEPT
            !.options = got.options,
            !.run_config_dict =
                with_method(with_parameter_binds(got.run_config_dict,
                                                 a.parameter_binds)),
            !.log = @ \o got.log])

\* run() from _deprecate_id_instruction on: dep is what it left.
run_deprecated(a, env, use_measure_esp, dep) ==
    IF dep.exc # ""
    THEN [Untouched(dep.circuits) EXCEPT
             !.id_warning_issued = dep.id_warning_issued,
             !._properties = dep._properties,
             !.log = dep.log,
             !.ret = Raise(dep.exc, "")]
    ELSE run_configured(a, env,
             [Untouched(dep.circuits) EXCEPT
                 !.id_warning_issued = dep.id_warning_issued,
                 !._properties = dep._properties,
                 !.log = dep.log],
             _get_run_config(run_kwargs(a, use_measure_esp)))

\* run(circuits, job_tags=..., max_circuits_per_job=..., header=..., shots=...,
\*     use_measure_esp=..., parameter_binds=..., **run_config).
\* env holds what the API client and assemble() answer when asked.
run(a, env) ==
    IF validate_job_tags(a.job_tags)
    THEN [Untouched(a.circuits) EXCEPT
             !.ret = Raise("IBMBackendValueError", "job_tags needs to be a list of strings")]
    ELSE IF measure_esp(a.use_measure_esp).unsupported
    THEN [Untouched(a.circuits) EXCEPT
             !.ret = Raise("IBMBackendValueError", "ESP readout not supported on this device")]
    ELSE run_deprecated(a, env, measure_esp(a.use_measure_esp).use,
             IF ~_configuration.simulator
             THEN _deprecate_id_instruction(a.circuits, env.properties)
             ELSE Unchanged(a.circuits))

\* IBMSimulator.run(circuits, job_tags=..., backend_options=..., noise_model=...,
\*                  **kwargs)
IBMSimulator_run(a, env) ==
    run([a EXCEPT !.run_config = <<<<"noise_model", a.noise_model>>>> \o a.run_config],
        env)

\* IBMRetiredBackend.run(*args, **kwargs)
IBMRetiredBackend_run(a, env) ==
    [Untouched(a.circuits) EXCEPT
        !.ret = Raise("IBMBackendError", "This backend is no longer available")]

\* ------------------------------------------------------------------------
\* The calls the caller makes
\* ------------------------------------------------------------------------
JobTagsNone == [is_none |-> TRUE, is_list |-> FALSE, tags |-> <<>>]
JobTagsList(tags) == [is_none |-> FALSE, is_list |-> TRUE, tags |-> tags]
JobTagsStr == [is_none |-> FALSE, is_list |-> FALSE, tags |-> <<>>]
StrTag(t) == [is_str |-> TRUE, tag |-> t]
IntTag(t) == [is_str |-> FALSE, tag |-> t]

\* None, [], ["t1"], ["t1", 7], "t1"
JobTagInputs ==
    {JobTagsNone, JobTagsList(<<>>), JobTagsList(<<StrTag("t1")>>),
     JobTagsList(<<StrTag("t1"), IntTag("7")>>), JobTagsStr}

\* A single circuit or schedule, or a list of them.
Single(c) == [circuits |-> <<c>>, is_list |-> FALSE]
List(l) == [circuits |-> l, is_list |-> TRUE]
CircuitInputs ==
    {Single(c) : c \in CircuitPool}
        \cup {List(l) : l \in SeqsOf({CircId, Schedule}, 0, MaxN)}

MaxCircuitsPerJobInputs == {NoneInt} \cup {Some(n) : n \in (-1)..MaxPerJob}

RunArgs(input) ==
    [circuits |-> input.circuits, is_list |-> input.is_list,
     job_tags |-> JobTagsNone, max_circuits_per_job |-> NoneInt,
     header |-> "None", shots |-> "None", use_measure_esp |-> "None",
     parameter_binds |-> "None", noise_model |-> "None", run_config |-> <<>>]

\* Calls that vary the circuits and max_circuits_per_job.
ChunkingCalls ==
    {[RunArgs(input) EXCEPT !.max_circuits_per_job = m] :
        input \in CircuitInputs, m \in MaxCircuitsPerJobInputs}

\* Calls that vary what run() validates.
ValidationCalls ==
    {[RunArgs(input) EXCEPT !.job_tags = t, !.use_measure_esp = u] :
        input \in {Single(CircId), List(<<CircId, Schedule>>)},
        t \in JobTagInputs, u \in {"None", "False", "True"}}

\* Calls that vary the run options.
RunConfigInputs ==
    {<<>>, << <<"foo", "1">> >>, << <<"foo", "None">> >>,
     << <<"foo", "1">>, <<"seed_simulator", "7">> >>, << <<"method", "mps">> >>}

OptionCalls ==
    {[RunArgs(Single(CircPlain)) EXCEPT !.header = h, !.shots = s,
                                        !.parameter_binds = b, !.noise_model = nm,
                                        !.run_config = rc] :
        h \in {"None", "hdr"}, s \in {"None", "1024"}, b \in {"None", "binds"},
        nm \in {"None", "nm"}, rc \in RunConfigInputs}

RunCalls == ChunkingCalls \cup ValidationCalls \cup OptionCalls

\* Responses of the API client to job_submit.
Tokens == {"Error code: ", "3458", "3459", "x"}
ApiErrorMessages == SeqsOf(Tokens, 0, MaxMsg)

SubmitInfos ==
    {(IF id = Absent THEN <<>> ELSE << <<"job_id", id>> >>)
       \o (IF err = Absent THEN <<>> ELSE << <<"error", err>> >>) :
        id \in {Absent, "", "j1"}, err \in {Absent, "limit reached"}}

SubmitResponses ==
    {ApiError(m) : m \in ApiErrorMessages} \cup {SubmitInfo(i) : i \in SubmitInfos}

\* The responses a run() call is tried with.
RunSubmitResponses ==
    {ApiError(<<"x">>), ApiError(ErrorCode3458)} \cup {SubmitInfo(i) : i \in SubmitInfos}

DefaultEnv ==
    [properties |-> "p1", assemble |-> "ok",
     job_submit |-> SubmitInfo(<< <<"job_id", "j1">> >>)]

Asked(lg, e, a) == CountEvent(lg, e, a) > 0

\* The answers a call can get: every combination of the answers it asks for;
\* an answer the call never asks for is left at its default.
Envs(dry, submits) ==
    {env \in [properties : PropertiesResponses, assemble : {"ok", "QiskitError"},
              job_submit : submits] :
        LET fetched == Asked(dry.log, "net", "backend_properties")
            fetch_ok == env.properties \notin {"ApiError", "None"}
            assembled == Asked(dry.log, "assemble", "ok") /\ (fetched => fetch_ok)
            submitted == /\ Asked(dry.log, "net", "job_submit")
                         /\ assembled /\ env.assemble = "ok"
        IN  /\ ~fetched => env.properties = DefaultEnv.properties
            /\ ~assembled => env.assemble = DefaultEnv.assemble
            /\ ~submitted => env.job_submit = DefaultEnv.job_submit}

\* The run() of the backend's class.
backend_run(a, env) ==
    CASE cls = "IBMBackend" -> run(a, env)
      [] cls = "IBMSimulator" -> IBMSimulator_run(a, env)
      [] cls = "IBMRetiredBackend" -> IBMRetiredBackend_run(a, env)

\* The properties() of the backend's class.
backend_properties(refresh, datetime, response) ==
    IF cls = "IBMBackend" THEN properties(_properties, refresh, datetime, response)
    ELSE [value |-> "None", exc |-> "", _properties |-> _properties, log |-> <<>>]

\* The accessors of the backend's class.
backend_status(response) ==
    IF cls = "IBMRetiredBackend" THEN IBMRetiredBackend_status ELSE status(response)
backend_defaults(refresh, response) ==
    IF cls = "IBMRetiredBackend" THEN IBMRetiredBackend_None(_defaults)
    ELSE defaults(_defaults, refresh, response)
backend_job_limit(response) ==
    IF cls = "IBMRetiredBackend" THEN IBMRetiredBackend_None("None")
    ELSE job_limit(response)
backend_remaining_jobs_count(response) ==
    IF cls = "IBMRetiredBackend" THEN IBMRetiredBackend_None("None")
    ELSE remaining_jobs_count(response)
backend_active_jobs(limit, response) ==
    IF cls = "IBMRetiredBackend" THEN IBMRetiredBackend_None("None")
    ELSE active_jobs(limit, response)
backend_reservations(response) ==
    IF cls = "IBMRetiredBackend" THEN IBMRetiredBackend_reservations
    ELSE reservations(response)

\* ------------------------------------------------------------------------
\* Actions
\* ------------------------------------------------------------------------
Init ==
    /\ \E c \in DeviceConfigurations \cup SimulatorConfigurations
                    \cup {RetiredConfiguration} :
          /\ _configuration = c
          /\ cls = IF c = RetiredConfiguration THEN "IBMRetiredBackend"
                   ELSE IF c.simulator THEN "IBMSimulator" ELSE "IBMBackend"
    /\ options = _default_options(cls)
    /\ id_warning_issued = FALSE
    /\ _properties = "None"
    /\ _defaults = "None"
    /\ pc = "idle"
    /\ call = NoCall
    /\ circuits = <<>>
    /\ qobjs = <<>>
    /\ run_config_dict = <<>>
    /\ log = <<>>
    /\ ret = NoRet

\* A call ends: the caller holds what the call left.
Ends(c, r) ==
    /\ call' = c
    /\ circuits' = r.circuits
    /\ _configuration' = r._configuration
    /\ id_warning_issued' = r.id_warning_issued
    /\ _properties' = r._properties
    /\ _defaults' = r._defaults
    /\ options' = r.options
    /\ qobjs' = r.qobjs
    /\ run_config_dict' = r.run_config_dict
    /\ log' = r.log
    /\ ret' = r.ret
    /\ pc' = "returned"

\* backend.run(...)
CallRun ==
    /\ pc = "idle"
    /\ \E a \in RunCalls :
         /\ cls # "IBMSimulator" => a.noise_model = "None"
         /\ \E env \in Envs(backend_run(a, DefaultEnv), RunSubmitResponses) :
              Ends([op |-> "run", args |-> a, env |-> env], backend_run(a, env))
    /\ UNCHANGED cls

\* backend._submit_job(qobj), as a composite job calls it for each of its
\* payloads.
SubmitJobEnds(qobj, response, r) ==
    Ends([op |-> "_submit_job", args |-> [qobj |-> qobj],
          env |-> [DefaultEnv EXCEPT !.job_submit = response]],
         [Untouched(qobj.experiments) EXCEPT !.log = r.log, !.ret = r.ret])

CallSubmitJob ==
    /\ pc = "idle"
    /\ cls # "IBMRetiredBackend"
    /\ \E response \in SubmitResponses :
         SubmitJobEnds(Qobj(<<CircPlain>>, options), response,
                       _submit_job(Qobj(<<CircPlain>>, options), response))
    /\ UNCHANGED cls

\* backend.properties(refresh, datetime)
PropertiesEnds(refresh, datetime, response, r) ==
    /\ r.log = <<>> => response = DefaultEnv.properties
    /\ Ends([op |-> "properties",
             args |-> [refresh |-> refresh, datetime |-> datetime],
             env |-> [DefaultEnv EXCEPT !.properties = response]],
            [Untouched(<<>>) EXCEPT
                !._properties = r._properties,
                !.log = r.log,
                !.ret = IF r.exc # "" THEN Raise(r.exc, "") ELSE Returns(r.value)])

CallProperties ==
    /\ pc = "idle"
    /\ \E refresh \in BOOLEAN, datetime \in {"None", "2021-01-01"},
          response \in PropertiesResponses \cup MalformedResponses :
         PropertiesEnds(refresh, datetime, response,
                        backend_properties(refresh, datetime, response))
    /\ UNCHANGED cls

\* An accessor other than properties() ends, having given g; an answer it
\* did not ask for is left at its default.
AccessorEnds(op, args, response, default, g) ==
    /\ g.log = <<>> => response = default
    /\ Ends([op |-> op, args |-> args, response |-> response],
            [Untouched(<<>>) EXCEPT !.log = g.log, !.ret = g.ret])

\* backend.status()
CallStatus ==
    /\ pc = "idle"
    /\ \E response \in StatusResponses :
         AccessorEnds("status", <<>>, response,
                      StatusResponse("ApiError", NoStatus), backend_status(response))
    /\ UNCHANGED cls

\* backend.defaults(refresh)
DefaultsEnds(refresh, response, g) ==
    /\ g.log = <<>> => response = "None"
    /\ Ends([op |-> "defaults", args |-> [refresh |-> refresh],
             response |-> response],
            [Untouched(<<>>) EXCEPT !._defaults = g.cache, !.log = g.log,
                                    !.ret = g.ret])

CallDefaults ==
    /\ pc = "idle"
    /\ \E refresh \in BOOLEAN, response \in DefaultsResponses \cup MalformedResponses :
         DefaultsEnds(refresh, response, backend_defaults(refresh, response))
    /\ UNCHANGED cls

\* backend.job_limit()
CallJobLimit ==
    /\ pc = "idle"
    /\ \E response \in JobLimitResponses :
         AccessorEnds("job_limit", <<>>, response,
                      JobLimitResponse("ApiError", 0, 0), backend_job_limit(response))
    /\ UNCHANGED cls

\* backend.remaining_jobs_count()
CallRemainingJobsCount ==
    /\ pc = "idle"
    /\ \E response \in JobLimitResponses :
         AccessorEnds("remaining_jobs_count", <<>>, response,
                      JobLimitResponse("ApiError", 0, 0),
                      backend_remaining_jobs_count(response))
    /\ UNCHANGED cls

\* backend.active_jobs(limit)
CallActiveJobs ==
    /\ pc = "idle"
    /\ \E limit \in {1, 10}, response \in JobsResponses(_configuration.backend_name) :
         AccessorEnds("active_jobs", [limit |-> limit], response,
                      JobsResponse("ApiError", <<>>),
                      backend_active_jobs(limit, response))
    /\ UNCHANGED cls

\* backend.reservations(start_datetime, end_datetime)
CallReservations ==
    /\ pc = "idle"
    /\ \E response \in ListResponses :
         AccessorEnds("reservations", <<>>, response, "ApiError",
                      backend_reservations(response))
    /\ UNCHANGED cls

\* The call has returned or raised; the caller goes on.
Return ==
    /\ pc = "returned"
    /\ pc' = "idle"
    /\ call' = NoCall
    /\ circuits' = <<>>
    /\ qobjs' = <<>>
    /\ run_config_dict' = <<>>
    /\ log' = <<>>
    /\ ret' = NoRet
    /\ UNCHANGED self

Next ==
    \/ CallRun \/ CallSubmitJob \/ CallProperties
    \/ CallStatus \/ CallDefaults \/ CallJobLimit \/ CallRemainingJobsCount
    \/ CallActiveJobs \/ CallReservations
    \/ Return

Spec == Init /\ [][Next]_vars

\* ------------------------------------------------------------------------
\* Properties
\* ------------------------------------------------------------------------
\* A call of IBMBackend.run (also through IBMSimulator.run) has ended.
RunEnded == pc = "returned" /\ call.op = "run" /\ cls # "IBMRetiredBackend"
\* ... and returned a job.
RunReturnedJob == RunEnded /\ ret.kind \in {"IBMCircuitJob", "IBMCompositeJob"}

\* The effective per-job maximum of the call: the smaller of max_experiments
\* and max_circuits_per_job when both are given, else the one that is given,
\* else None.
EffectiveMax ==
    LET backend_max == _configuration.max_experiments
        per_job == call.args.max_circuits_per_job
    IN  IF ~IsNone(backend_max) /\ ~IsNone(per_job)
        THEN Some(Min(Val(backend_max), Val(per_job)))
        ELSE IF ~IsNone(backend_max) THEN backend_max ELSE per_job

RECURSIVE Flatten(_)
Flatten(ss) == IF ss = <<>> THEN <<>> ELSE Head(ss) \o Flatten(Tail(ss))

\* n = ceil(total / size), that is n - 1 < total / size <= n, without
\* dividing; no n is the quotient by 0.
IsCeilDiv(n, total, size) ==
    \/ size > 0 /\ (n - 1) * size < total /\ total <= n * size
    \/ size < 0 /\ (n - 1) * size > total /\ total >= n * size

\* C1: a run() that is given a list of more circuits than the effective
\* per-job maximum returns a composite job of exactly ceil(N / max) chunks,
\* none larger than max, whose concatenation is the list that was given.
C1_OverMaxIsSplitIntoCeilChunks ==
    (RunReturnedJob /\ call.args.is_list /\ ~IsNone(EffectiveMax)
        /\ Len(circuits) > Val(EffectiveMax))
    => /\ ret.kind = "IBMCompositeJob"
       /\ IsCeilDiv(Len(ret.circuits_list), Len(circuits), Val(EffectiveMax))
       /\ \A k \in 1..Len(ret.circuits_list) :
              Len(ret.circuits_list[k]) <= Val(EffectiveMax)
       /\ Flatten(ret.circuits_list) = circuits

\* The case of C2: a single circuit or schedule, or a list no longer than the
\* effective per-job maximum, or no maximum at all.
WithinMax ==
    \/ ~call.args.is_list
    \/ IsNone(EffectiveMax)
    \/ Len(circuits) <= Val(EffectiveMax)

C3_PerJobGivenIsComposite ==
    (RunReturnedJob
        /\ \/ /\ call.args.is_list /\ ~IsNone(_configuration.max_experiments)
              /\ Len(circuits) > Val(_configuration.max_experiments)
           \/ ~IsNone(call.args.max_circuits_per_job))
    => ret.kind = "IBMCompositeJob"

\* run() refused the call because of ESP readout.
EspRefused ==
    /\ ret.kind = "raise" /\ ret.exc = "IBMBackendValueError"
    /\ ret.msg = "ESP readout not supported on this device"

\* C4: a run() with use_measure_esp=True on a backend whose configuration
\* does not declare measure_esp_enabled raises IBMBackendValueError, having
\* made no network call and changed no circuit of the caller; with
\* use_measure_esp=None the run takes the backend's measure_esp_enabled value
\* and is never refused because of ESP readout.
C4_EspUnsupportedRaisesFirst ==
    RunEnded =>
       /\ (call.args.use_measure_esp = "True"
              /\ _configuration.measure_esp_enabled # "True")
          => /\ ret.kind = "raise" /\ ret.exc = "IBMBackendValueError"
             /\ Count(log, "net") = 0
             /\ Count(log, "replace") = 0
             /\ circuits = call.args.circuits
       /\ call.args.use_measure_esp = "None"
          => /\ ~EspRefused
             /\ run_config_dict # <<>>
                  => DictGet(run_config_dict, "use_measure_esp")
                       = (IF _configuration.measure_esp_enabled = "True"
                          THEN "True" ELSE "False")

\* ESP readout is asked of a device that does not declare it, with circuits
\* that hold 'id' instructions and an empty properties cache, so that going
\* on would have fetched the properties and rewritten the circuits.
C4_Witness ==
    /\ RunEnded /\ EspRefused
    /\ call.args.use_measure_esp = "True"
    /\ _configuration.measure_esp_enabled = Absent
    /\ "delay" \in _configuration.supported_instructions
    /\ circuit_has_id(call.args.circuits)
    /\ _properties = "None"

\* C5: every configuration or validation error that run() raises (malformed
\* job tags, unsupported ESP readout, a run argument that assemble() rejects)
\* is raised before run() has made any network call.
C5_ValidationErrorsBeforeAnyNetworkCall ==
    (RunEnded /\ ret.kind = "raise"
        /\ ret.exc \in {"IBMBackendValueError", "QiskitError"})
    => Count(log, "net") = 0

\* A call has gone through _submit_job: the caller's own, or the one run()
\* makes for the payload it assembled.
SubmitJobEnded ==
    /\ pc = "returned"
    /\ \/ call.op = "_submit_job"
       \/ call.op = "run" /\ Len(qobjs) = 1
Response == call.env.job_submit
SubmissionErrors == {"IBMBackendApiError", "IBMBackendJobLimitError"}

\* C6 as stated: _submit_job calls job_submit exactly once and ends in one
\* of three ways: an ApiError is re-raised as a submission error, a response
\* with an 'error' field raises IBMBackendError, and any other response gives
\* a job handle.
C6_ThreeOutcomes ==
    SubmitJobEnded =>
       /\ CountEvent(log, "net", "job_submit") = 1
       /\ Response.raises
            => ret.kind = "raise" /\ ret.exc \in SubmissionErrors
       /\ (~Response.raises /\ DictHas(Response.info, "error"))
            => ret.kind = "raise" /\ ret.exc = "IBMBackendError"
       /\ (~Response.raises /\ ~DictHas(Response.info, "error"))
            => ret.kind = "IBMCircuitJob"

\* C6, amended: _submit_job calls job_submit exactly once and ends in one of
\* four ways: an ApiError is re-raised as a submission error, a response with
\* an 'error' field raises IBMBackendError, and any other response either
\* gives a job handle or, when no job can be constructed from it, raises
\* IBMBackendApiProtocolError; a response with an 'error' field never gives a
\* job handle.
C6_FourOutcomes ==
    SubmitJobEnded =>
       /\ CountEvent(log, "net", "job_submit") = 1
       /\ Response.raises
            => ret.kind = "raise" /\ ret.exc \in SubmissionErrors
       /\ (~Response.raises /\ DictHas(Response.info, "error"))
            => ret.kind = "raise" /\ ret.exc = "IBMBackendError"
       /\ (~Response.raises /\ ~DictHas(Response.info, "error"))
            => \/ ret.kind = "IBMCircuitJob"
               \/ /\ ret.kind = "raise" /\ ret.exc = "IBMBackendApiProtocolError"
                  /\ Count(log, "IBMCircuitJob") = 0
       /\ ret.kind = "IBMCircuitJob"
            => ~Response.raises /\ ~DictHas(Response.info, "error")

\* The response has no 'error' field and no job identifier.
C6_Witness ==
    /\ SubmitJobEnded /\ call.op = "_submit_job"
    /\ Response = SubmitInfo(<<>>)
    /\ ret.exc = "IBMBackendApiProtocolError"

\* 'Error code: 3458' occurs in the message.
HasErrorCode3458(msg) ==
    \E i \in 1..(Len(msg) - 1) : msg[i] = "Error code: " /\ msg[i + 1] = "3458"

\* C7: in _submit_job an ApiError whose message contains 'Error code: 3458'
\* is raised as IBMBackendJobLimitError, and every other ApiError as
\* IBMBackendApiError.
C7_JobLimitErrorIffCode3458 ==
    (SubmitJobEnded /\ Response.raises)
    => /\ ret.kind = "raise"
       /\ HasErrorCode3458(Response.msg) => ret.exc = "IBMBackendJobLimitError"
       /\ ~HasErrorCode3458(Response.msg) => ret.exc = "IBMBackendApiError"

\* The error code is in the middle of the message.
C7_Witness ==
    /\ SubmitJobEnded /\ Response.raises
    /\ Response.msg = <<"x", "Error code: ", "3458">>
    /\ ret.exc = "IBMBackendJobLimitError"

C9_PublishOnceAfterJobConstructed ==
    pc = "returned" =>
       /\ Count(log, "IBMCircuitJob") > 0
            => /\ Asked(log, "net", "job_submit")
               /\ First(log, "IBMCircuitJob")
                     > (CHOOSE i \in 1..Len(log) : log[i] = Event("net", "job_submit"))
               /\ ~Response.raises /\ ~DictHas(Response.info, "error")
       /\ (SubmitJobEnded /\ ret.kind = "IBMCircuitJob")
            => /\ Count(log, "IBMCircuitJob") = 1
               /\ Count(log, "publish") = 1
               /\ First(log, "publish") > First(log, "IBMCircuitJob")
       /\ ret.kind # "IBMCircuitJob" => Count(log, "publish") = 0

C9_Witness ==
    /\ SubmitJobEnded /\ call.op = "run" /\ ret.kind = "IBMCircuitJob"
    /\ Count(log, "publish") = 1

\* The options the caller gives a run() call: header (handed on as
\* qobj_header), shots and the noise_model of IBMSimulator.run when they are
\* not left at None, and every key of **run_config.
Given(key, val) == IF val = "None" THEN <<>> ELSE << <<key, val>> >>
GivenOptions ==
    Given("qobj_header", call.args.header) \o Given("shots", call.args.shots)
    \o (IF cls = "IBMSimulator" THEN Given("noise_model", call.args.noise_model)
        ELSE <<>>)
    \o call.args.run_config

\* run() has consolidated its run configuration.
RunConfigured == RunEnded /\ run_config_dict # <<>>
Warnings(key) == CountEvent(log, "warn unrecognized", key)

\* C10 as stated: every run option whose key is not among the backend's
\* options is copied unchanged into the run configuration and is warned about
\* exactly once, or not at all on an IBMSimulator; it is never an error.
C10_UnrecognizedOptionCopiedAndWarned ==
    RunConfigured =>
       \A i \in 1..Len(GivenOptions) :
          LET key == GivenOptions[i][1]
              val == GivenOptions[i][2]
          IN  ~DictHas(options, key)
              => /\ DictHas(run_config_dict, key)
                 /\ DictGet(run_config_dict, key) = val
                 /\ Warnings(key) = (IF cls = "IBMSimulator" THEN 0 ELSE 1)
                 /\ Count(log, "assemble") + Count(log, "IBMCompositeJob") = 1

\* C10, amended: every run option that is given a value other than None and
\* whose key is not among the backend's options is copied unchanged into the
\* run configuration and is warned about exactly once, or not at all on an
\* IBMSimulator; one that is given as None is neither copied nor warned
\* about; neither is an error.
C10_GivenUnrecognizedOptionCopiedAndWarned ==
    RunConfigured =>
       \A i \in 1..Len(GivenOptions) :
          LET key == GivenOptions[i][1]
              val == GivenOptions[i][2]
          IN  ~DictHas(options, key)
              => /\ val # "None"
                   => /\ DictHas(run_config_dict, key)
                      /\ DictGet(run_config_dict, key) = val
                      /\ Warnings(key) = (IF cls = "IBMSimulator" THEN 0 ELSE 1)
                 /\ val = "None"
                   => /\ ~DictHas(run_config_dict, key)
                      /\ Warnings(key) = 0
                 /\ Count(log, "assemble") + Count(log, "IBMCompositeJob") = 1

\* An unrecognized option with a value, on a device.
C10_Witness ==
    /\ RunConfigured /\ cls = "IBMBackend"
    /\ call.args.run_config = << <<"foo", "1">> >>
    /\ DictGet(run_config_dict, "foo") = "1"
    /\ Warnings("foo") = 1
    /\ ret.kind = "IBMCircuitJob"

\* The keyword arguments the run() call handed to _get_run_config.
RunConfigKwargs ==
    run_kwargs(IF cls = "IBMSimulator"
               THEN [call.args EXCEPT
                        !.run_config = << <<"noise_model", call.args.noise_model>> >>
                                       \o call.args.run_config]
               ELSE call.args,
               measure_esp(call.args.use_measure_esp).use)

\* The keys run() itself sets in the run configuration after _get_run_config.
SetByRun == {"parameter_binds", "method"}

\* C11: for every option key, the run configuration holds the argument that
\* _get_run_config was given for it when that argument is not None, and
\* otherwise the value of the backend's options; an argument of None never
\* overrides an option, and the backend's options are what they were before
\* the call.
C11_ArgumentOverridesOptionUnlessNone ==
    RunConfigured =>
       /\ options = _default_options(cls)
       /\ \A key \in DictKeys(options) \cup DictKeys(RunConfigKwargs) :
             IF DictHas(RunConfigKwargs, key) /\ DictGet(RunConfigKwargs, key) # "None"
             THEN /\ DictHas(run_config_dict, key)
                  /\ DictGet(run_config_dict, key) = DictGet(RunConfigKwargs, key)
             ELSE IF DictHas(options, key)
             THEN /\ DictHas(run_config_dict, key)
                  /\ DictGet(run_config_dict, key) = DictGet(options, key)
             ELSE key \notin SetByRun => ~DictHas(run_config_dict, key)

\* shots is left at None and header is given: the option 'shots' keeps the
\* value of the backend's options and qobj_header holds the argument.
C11_Witness ==
    /\ RunConfigured
    /\ call.args.shots = "None" /\ call.args.header = "hdr"
    /\ DictGet(run_config_dict, "shots") = "4000"
    /\ DictGet(run_config_dict, "qobj_header") = "hdr"
    /\ DictGet(options, "shots") = "4000"

\* The 'id' deprecation warnings among the events of a call.
IdWarnings(lg) ==
    CountEvent(lg, "warn", "id deprecated") + CountEvent(lg, "warn", "id removed")

\* C12: over any sequence of calls on one backend instance the 'id' warning is
\* emitted at most once: a call warns at most once and only while the
\* instance has not warned, the instance remembers that it has warned, and
\* once it has, no later call warns.
C12_IdWarningAtMostOncePerInstance ==
    [][/\ IdWarnings(log') <= 1
       /\ IdWarnings(log') = 1 => ~id_warning_issued /\ id_warning_issued'
       /\ id_warning_issued => id_warning_issued' /\ IdWarnings(log') = 0]_vars

\* A later run() call whose circuits contain 'id' instructions, which are
\* replaced without a warning because the instance has warned before.
C12_Witness ==
    /\ RunEnded /\ cls = "IBMBackend"
    /\ circuit_has_id(call.args.circuits)
    /\ "delay" \in _configuration.supported_instructions
    /\ id_warning_issued
    /\ CountEvent(log, "replace", "id") > 0
    /\ IdWarnings(log) = 0

\* run() got past the checks of its arguments (job_tags, use_measure_esp).
PastValidation ==
    /\ ~validate_job_tags(call.args.job_tags)
    /\ ~measure_esp(call.args.use_measure_esp).unsupported

\* now is orig with every 'id' instruction of every QuantumCircuit replaced by
\* a delay at the same position on the same qubits, and nothing else changed.
IdsReplaced(orig, now) ==
    /\ Len(now) = Len(orig)
    /\ \A c \in 1..Len(orig) :
          IF orig[c].type = "Schedule" THEN now[c] = orig[c]
          ELSE /\ now[c].type = orig[c].type
               /\ Len(now[c].data) = Len(orig[c].data)
               /\ \A idx \in 1..Len(orig[c].data) :
                     IF orig[c].data[idx].name = "id"
                     THEN /\ now[c].data[idx].name = "delay"
                          /\ now[c].data[idx].qargs = orig[c].data[idx].qargs
                     ELSE now[c].data[idx] = orig[c].data[idx]

\* C13: on a non-simulator backend that supports 'delay', every run() call
\* that gets past the checks of its arguments leaves no 'id' instruction in
\* the caller's QuantumCircuits: each is replaced in place by a delay on the
\* same qubits, Schedules are untouched; when 'delay' is not supported or the
\* backend is a simulator the caller's circuits are unchanged.
C13_EveryIdReplacedInPlace ==
    RunEnded /\ PastValidation =>
       IF cls = "IBMBackend" /\ "delay" \in _configuration.supported_instructions
       THEN /\ IdsReplaced(call.args.circuits, circuits)
            /\ ~circuit_has_id(circuits)
       ELSE circuits = call.args.circuits

\* The network round-trips of a call.
RoundTrips(lg) == Count(lg, "net")

\* C14: a properties() query with a datetime always queries the server (on a
\* backend class that has properties) and leaves the cached properties as
\* they were, so its result is never stored; in any sequence of calls the
\* cached properties change only in a properties() call with refresh=True or
\* in a call made while that cache was empty, and the cached defaults only in
\* a defaults() call with refresh=True or made while that cache was empty.
C14_CachesChangeOnlyOnRefreshOrWhenEmpty ==
    [][pc' = "returned" =>
         /\ call'.op = "properties" /\ call'.args.datetime # "None"
               => /\ _properties' = _properties
                  /\ cls = "IBMBackend"
                        => CountEvent(log', "net", "backend_properties") = 1
         /\ _properties' # _properties
               => \/ _properties = "None"
                  \/ call'.op = "properties" /\ call'.args.refresh
         /\ _defaults' # _defaults
               => \/ _defaults = "None"
                  \/ call'.op = "defaults" /\ call'.args.refresh]_vars

\* A query with a datetime on a populated cache: the server is asked, the
\* snapshot it gives is returned, and the cache still holds what it held.
C14_Witness ==
    /\ pc = "returned" /\ call.op = "properties" /\ cls = "IBMBackend"
    /\ call.args.datetime # "None"
    /\ CountEvent(log, "net", "backend_properties") = 1
    /\ ret.kind = "value" /\ ret.value = "p2"
    /\ _properties = "p1"

\* C15: with refresh=False and no datetime, properties() and defaults() on a
\* populated cache return the cached value without a network call; with
\* refresh=True they query the server, and the value they return is the
\* freshly fetched one, which the cache then holds for later calls without
\* refresh.
C15_RefreshReturnsWhatLaterCallsReturn ==
    [][pc' = "returned" =>
         /\ (call'.op = "properties" /\ cls = "IBMBackend"
                /\ call'.args.datetime = "None" /\ ret'.kind = "value")
               => IF call'.args.refresh
                  THEN /\ CountEvent(log', "net", "backend_properties") = 1
                       /\ ret'.value = call'.env.properties
                       /\ _properties' = ret'.value
                  ELSE _properties # "None"
                          => /\ RoundTrips(log') = 0
                             /\ ret'.value = _properties
         /\ (call'.op = "defaults" /\ cls # "IBMRetiredBackend"
                /\ ret'.kind = "value")
               => IF call'.args.refresh
                  THEN /\ CountEvent(log', "net", "backend_pulse_defaults") = 1
                       /\ ret'.value = call'.response
                       /\ _defaults' = ret'.value
                  ELSE _defaults # "None"
                          => /\ RoundTrips(log') = 0
                             /\ ret'.value = _defaults]_vars

\* The accessors that ask the server, and those among them that keep no cache.
Accessors ==
    {"properties", "status", "defaults", "job_limit", "remaining_jobs_count",
     "reservations"}
Uncached == {"status", "job_limit", "reservations"}
Endpoint(op) ==
    CASE op = "status" -> "backend_status"
      [] op = "job_limit" -> "backend_job_limit"
      [] op = "reservations" -> "backend_reservations"

\* C16: each call of properties(), status(), defaults(), job_limit(),
\* remaining_jobs_count() or reservations() makes at most one network
\* round-trip; status(), job_limit() and reservations() (where the class does
\* not override them) ask the server on every call and leave nothing behind
\* in the backend object.
C16_AtMostOneRoundTripPerAccessor ==
    [][pc' = "returned" /\ call'.op \in Accessors =>
         /\ RoundTrips(log') <= 1
         /\ call'.op \in Uncached
               => /\ UNCHANGED self
                  /\ cls # "IBMRetiredBackend"
                        => CountEvent(log', "net", Endpoint(call'.op)) = 1]_vars

\* remaining_jobs_count() has returned a count after one round-trip.
C16_Witness ==
    /\ pc = "returned" /\ call.op = "remaining_jobs_count"
    /\ ret.kind = "value" /\ ~IsNone(ret.count)
    /\ RoundTrips(log) = 1
    /\ CountEvent(log, "net", "backend_job_limit") = 1

\* The answer of the server to the call was malformed: fields were missing or
\* mistyped.
MalformedAnswer ==
    CASE call.op = "properties" ->
            /\ call.env.properties \in MalformedResponses
            /\ CountEvent(log, "net", "backend_properties") = 1
      [] call.op \in {"status", "job_limit"} -> call.response.kind \in MalformedResponses
      [] call.op \in {"defaults", "reservations"} -> call.response \in MalformedResponses
      [] OTHER -> FALSE

\* C17: each of properties, status, defaults, job_limit and reservations
\* fails with IBMBackendApiProtocolError whenever the response of the server
\* has missing or mistyped fields: it returns no result and lets no other
\* error out.
C17_MalformedResponseIsProtocolError ==
    pc = "returned" /\ MalformedAnswer =>
       /\ ret.kind = "raise"
       /\ ret.exc = "IBMBackendApiProtocolError"

\* C18: on a retired backend, in any sequence of calls, run() raises
\* IBMBackendError, properties, defaults, job_limit, remaining_jobs_count and
\* active_jobs return None, reservations returns an empty list and status
\* returns the one fixed status (not operational, no pending jobs), all of
\* them without a network call.
C18_RetiredBackendAnswersWithoutNetwork ==
    pc = "returned" /\ cls = "IBMRetiredBackend" =>
       /\ RoundTrips(log) = 0
       /\ call.op = "run" => ret.kind = "raise" /\ ret.exc = "IBMBackendError"
       /\ call.op \in {"properties", "defaults", "job_limit", "remaining_jobs_count",
                       "active_jobs"}
             => ret.kind = "value" /\ ret.value = "None"
       /\ call.op = "reservations" => ret.kind = "value" /\ ret.list = <<>>
       /\ call.op = "status"
             => /\ ret.kind = "value"
                /\ ret.status = IBMRetiredBackend__status
                /\ ret.status.operational = "False"
                /\ ret.status.pending_jobs = Some(0)

\* status() on a retired backend.
C18_Witness ==
    /\ pc = "returned" /\ cls = "IBMRetiredBackend"
    /\ call.op = "status"
    /\ ret.status.operational = "False"
    /\ log = <<>>

\* self.name(): the backend_name of the configuration.
name == _configuration.backend_name

\* C19: the name and the configuration of the backend stay what they were at
\* construction: no call of run, properties, status, defaults, job_limit,
\* remaining_jobs_count, active_jobs or reservations, whether it succeeds or
\* fails, changes them.
C19_NameAndConfigurationNeverChange ==
    [][name' = name /\ _configuration' = _configuration /\ cls' = cls]_vars

\* A failing call on a device that has run circuits before: it has warned
\* about 'id' and holds properties, and is still the device it was.
C19_Witness ==
    /\ pc = "returned" /\ ret.kind = "raise"
    /\ call.op \in {"status", "defaults", "job_limit", "reservations"}
    /\ cls = "IBMBackend" /\ _configuration \in DeviceConfigurations
    /\ id_warning_issued /\ _properties # "None"
    /\ name = "ibmq_device"

\* job_limit() or remaining_jobs_count() has returned on what the server
\* reported.
LimitReturned(op) ==
    /\ pc = "returned" /\ call.op = op /\ cls # "IBMRetiredBackend"
    /\ ret.kind = "value"

\* C20: job_limit() reports maximum_jobs as None exactly when the server
\* reports -1, and otherwise reports the server's maximum; active_jobs is
\* what the server reports; remaining_jobs_count() returns None exactly when
\* there is no limit and otherwise maximum_jobs minus active_jobs.
C20_NoLimitIffMinusOne ==
    /\ LimitReturned("job_limit") =>
          /\ IsNone(ret.maximum_jobs) <=> call.response.maximum_jobs = -1
          /\ ~IsNone(ret.maximum_jobs)
                => Val(ret.maximum_jobs) = call.response.maximum_jobs
          /\ ret.active_jobs = Some(call.response.active_jobs)
    /\ LimitReturned("remaining_jobs_count") =>
          /\ ret.value = "None" <=> call.response.maximum_jobs = -1
          /\ ret.value # "None"
                => ret.count = Some(call.response.maximum_jobs
                                    - call.response.active_jobs)
          /\ ret.value = "None" => IsNone(ret.count)

\* remaining_jobs_count() with a limit of MaxJobs and no active job.
C20_Witness ==
    /\ LimitReturned("remaining_jobs_count")
    /\ call.response.maximum_jobs = MaxJobs /\ call.response.active_jobs = 0
    /\ ret.count = Some(MaxJobs)

\* C21: active_jobs(limit) returns only jobs that were submitted to this
\* backend and whose status is not final.
C21_ActiveJobsAreOfThisBackendAndUnfinished ==
    pc = "returned" /\ call.op = "active_jobs" /\ ret.kind = "value"
       /\ cls # "IBMRetiredBackend"
       => \A i \in 1..Len(ret.jobs) :
             /\ ret.jobs[i].backend_name = name
             /\ ret.jobs[i].status \in active_job_states

\* The payloads a run() call produced: the chunks handed to the composite
\* job, or the one payload assemble() built.
Payloads ==
    IF ret.kind = "IBMCompositeJob" THEN ret.circuits_list
    ELSE [k \in 1..Len(qobjs) |-> qobjs[k].experiments]

\* C22: whenever the configuration declares max_experiments, no payload that
\* run() produces from a list of circuits holds more than max_experiments
\* circuits, whatever max_circuits_per_job is, 0 included.
C22_NoPayloadOverMaxExperiments ==
    RunEnded /\ call.args.is_list /\ ~IsNone(_configuration.max_experiments)
       => \A k \in 1..Len(Payloads) :
             Len(Payloads[k]) <= Val(_configuration.max_experiments)

\* C23: for every list of circuits and every integer max_circuits_per_job,
\* negative ones included, the chunks run() hands to the composite job are
\* all non-empty and their concatenation, in order, is the list that was
\* given: no circuit is dropped or duplicated.
C23_ChunksPartitionTheList ==
    RunEnded /\ call.args.is_list /\ ret.kind = "IBMCompositeJob"
       => /\ \A k \in 1..Len(ret.circuits_list) : ret.circuits_list[k] # <<>>
          /\ Flatten(ret.circuits_list) = circuits

\* C24: a run() call on a backend that is not a simulator, given only
\* parameters run() names itself (header, shots, ...) and no other run
\* option, emits no 'not a recognized runtime option' warning.
C24_NamedParametersAreNotWarnedAbout ==
    RunConfigured /\ cls = "IBMBackend" /\ call.args.run_config = <<>>
       => Count(log, "warn unrecognized") = 0

\* A call with refresh=True has returned None because the server had no data.
RefreshGaveNone(op) ==
    /\ pc = "returned" /\ call.op = op /\ cls = "IBMBackend"
    /\ call.args.refresh
    /\ ret.kind = "value" /\ ret.value = "None"
    /\ RoundTrips(log) = 1

\* C25: for properties() and for defaults(), after a call with refresh=True
\* that returns None because the server returned no data, the cache is empty,
\* so that the next call without refresh asks the server again and returns no
\* older value.
C25_RefreshWithoutDataEmptiesTheCache ==
    /\ RefreshGaveNone("properties") /\ call.args.datetime = "None"
          => _properties = "None"
    /\ RefreshGaveNone("defaults") => _defaults = "None"

====
